---- MODULE Spec2Model ----
(***************************************************************************)
(* Model of tmux_utils.TmuxOrchestrator: the timeout-guarded subprocess    *)
(* helpers (_safe_subprocess_large_output, _safe_subprocess_stream), the   *)
(* confirmation gate (_safe_confirm) and the operations built on them       *)
(* (capture_window_content, send_keys_to_window, send_command_to_window).   *)
(*                                                                         *)
(* One caller thread runs the orchestrator's methods one after another.    *)
(* The child process of a call and the input-reader threads started by      *)
(* _safe_confirm run concurrently with it.                                  *)
(***************************************************************************)
EXTENDS Integers, Sequences, FiniteSets, TLC

(***************************************************************************)
(* Bounds of the model.                                                     *)
(***************************************************************************)
MaxTimeout == 2
\* largest timeout (configured default or per-call override), in clock ticks

MaxLines == 3
\* most lines a child writes to its stdout

MaxErr == 2
\* most lines a child writes to its stderr

PipeCap == 1
\* lines an OS pipe holds before a write to it blocks

MaxCalls == 2
\* most _safe_confirm calls (each starts one reader thread)

MaxTime == MaxTimeout + 1
\* the clock stops one tick past the largest timeout

(***************************************************************************)
(* Program constants.                                                       *)
(***************************************************************************)
DefaultMaxLinesCapture == 1000

StreamThreshold == 100

DefaultNumLines == 50

SIGKILL == 9

NoTimeout == 0
\* timeout: Optional[int] = None

NoCode == 0 - 1000
\* Popen.returncode is None until the child is reaped

(***************************************************************************)
(* Text.  A string is a sequence of one-character strings, so that strip() *)
(* and lower() are computed and not assumed.                                *)
(***************************************************************************)
IsSpace(c) == c = " "

LowerChar(c) ==
    CASE c = "Y" -> "y"
      [] c = "E" -> "e"
      [] c = "S" -> "s"
      [] c = "P" -> "p"
      [] OTHER -> c

RECURSIVE LStrip(_)
LStrip(s) ==
    IF s = <<>> THEN <<>>
    ELSE IF IsSpace(Head(s)) THEN LStrip(Tail(s)) ELSE s

RECURSIVE RStrip(_)
RStrip(s) ==
    IF s = <<>> THEN <<>>
    ELSE IF IsSpace(s[Len(s)]) THEN RStrip(SubSeq(s, 1, Len(s) - 1)) ELSE s

Strip(s) == RStrip(LStrip(s))

Lower(s) == [i \in 1..Len(s) |-> LowerChar(s[i])]

YES == <<"y", "e", "s">>

EOF == <<"EOF">>
\* input() raising EOFError; no typed line is this one-element sequence

TypedLines ==
    { <<"y", "e", "s">>,
      <<" ", "Y", "E", "S", " ">>,
      <<"y">>,
      <<"Y", "e", "s", " ", "p", "l", "e", "a", "s", "e">>,
      <<>>,
      <<"n", "o">> }

Inputs == TypedLines \cup {EOF}

ResponseNotLowered(line) == IF line = EOF THEN <<>> ELSE Strip(line)

\* get_input: response.strip().lower(), or "" on EOFError
Response(line) == IF line = EOF THEN <<>> ELSE Lower(Strip(line))

(***************************************************************************)
(* Values passed between the layers.  One record shape for every outcome.  *)
(***************************************************************************)
NoMsg == [text |-> "", inner |-> "", timeout |-> 0, cmd |-> ""]

Nothing ==
    [kind |-> "none", exc |-> "", msg |-> NoMsg, out |-> <<>>, err |-> 0,
     code |-> 0, flag |-> FALSE]

\* return stdout, stderr, proc.returncode
Result(out, err, code) ==
    [Nothing EXCEPT !.kind = "result", !.out = out, !.err = err, !.code = code]

\* return "".join(chunks)
Text(lines) == [Nothing EXCEPT !.kind = "text", !.out = lines]

\* return True / return False
Bool(b) == [Nothing EXCEPT !.kind = "bool", !.flag = b]

\* raise exc(msg): an exception carries its message and no output
Raise(exc, msg) == [Nothing EXCEPT !.kind = "raise", !.exc = exc, !.msg = msg]

\* TmuxError(f"Command timeout after {timeout}s: {cmd}")
TimeoutMsg(t, c) ==
    [text |-> "Command timeout after", inner |-> "", timeout |-> t, cmd |-> c]

\* TmuxError(f"<text>: {e}") wrapping the message of e
Wrap(text, m) == [m EXCEPT !.text = text, !.inner = m.text]

\* TmuxError(f"<text>: {stderr}")
Failed(text, c) == [text |-> text, inner |-> "stderr", timeout |-> 0, cmd |-> c]

NumLinesInputs == {DefaultNumLines, StreamThreshold, StreamThreshold + 1,
                   DefaultMaxLinesCapture + 500}

Min(a, b) == IF a < b THEN a ELSE b

VARIABLES
    safety_mode,        \* self._safety_mode
    cmd_timeout,        \* self.cmd_timeout
    max_lines_capture,  \* self.max_lines_capture
    pc,                 \* position of the caller thread
    op,                 \* the public/helper method being run, with its arguments
    stage,              \* send_command_to_window: 1 = text, 2 = Enter key
    mode,               \* which helper runs the child: "bounded" or "streamed"
    cmd,                \* label of the command of the current child
    timeout,            \* effective timeout of the current helper call
    elapsed,            \* clock ticks since Popen returned
    child,              \* "none", "running", "wr_out", "wr_err", "zombie", "reaped"
    killed,             \* the parent sent SIGKILL to the child
    exitcode,           \* status the child exited with
    exitInTime,         \* the child exited by itself, no later than the timeout
    returncode,         \* proc.returncode
    outPipe,            \* lines in the stdout pipe, oldest first
    errPipe,            \* number of lines in the stderr pipe
    written,            \* lines the child has written to stdout
    errWritten,         \* lines the child has written to stderr
    produced,           \* every stdout line the child wrote, in order
    chunks,             \* lines the parent has read from stdout
    errBuf,             \* lines the parent has read from stderr
    capStop,            \* the read loop was left by the line-cap break
    outcome,            \* how the last helper call ended
    ret,                \* how the current method ended
    issued,             \* commands handed to Popen by the current method
    ncalls,             \* _safe_confirm calls made so far
    reader,             \* per call: "unstarted", "input", "done", "gone"
    typed,              \* per call: the line its reader consumed
    handoff,            \* per call: result_queue
    answer              \* per call: "pending", "true", "false", "forgotten"

procVars ==
    <<mode, cmd, timeout, elapsed, child, killed, exitcode, exitInTime, returncode,
      outPipe, errPipe, written, errWritten, produced, chunks, errBuf, capStop>>

gateVars == <<ncalls, reader, typed, handoff, answer>>

cfgVars == <<safety_mode, cmd_timeout, max_lines_capture>>

vars == <<cfgVars, pc, op, stage, procVars, outcome, ret, issued, gateVars>>

Calls == 1..MaxCalls

CapValues == {1, 2, DefaultMaxLinesCapture}

NoOp ==
    [name |-> "none", confirm |-> FALSE, num_lines |-> 0, override |-> NoTimeout,
     call |-> 0]

\* __init__(safety_mode, cmd_timeout); max_lines_capture is a plain attribute
Init ==
    /\ safety_mode \in BOOLEAN
    /\ cmd_timeout \in 1..MaxTimeout
    /\ max_lines_capture \in CapValues
    /\ pc = "idle"
    /\ op = NoOp
    /\ stage = 0
    /\ mode = "none"
    /\ cmd = ""
    /\ timeout = 0
    /\ elapsed = 0
    /\ child = "none"
    /\ killed = FALSE
    /\ exitcode = NoCode
    /\ exitInTime = FALSE
    /\ returncode = NoCode
    /\ outPipe = <<>>
    /\ errPipe = 0
    /\ written = 0
    /\ errWritten = 0
    /\ produced = <<>>
    /\ chunks = <<>>
    /\ errBuf = 0
    /\ capStop = FALSE
    /\ outcome = Nothing
    /\ ret = Nothing
    /\ issued = <<>>
    /\ ncalls = 0
    /\ reader = [k \in Calls |-> "unstarted"]
    /\ typed = [k \in Calls |-> <<>>]
    /\ handoff = [k \in Calls |-> <<>>]
    /\ answer = [k \in Calls |-> "pending"]


(***************************************************************************)
(* The callers' continuations: what each method does with the way the      *)
(* helper call it made has ended.                                           *)
(***************************************************************************)
\* the method is over: its result or exception reaches its own caller
Done(o) ==
    [pc |-> "done", ret |-> o, stage |-> stage, cmd |-> cmd, mode |-> mode,
     timeout |-> timeout]

\* except (subprocess.CalledProcessError, TmuxError) as e: raise TmuxError(f"{text}: {e}")
Rewrap(o, text) ==
    IF o.exc = "TmuxError" THEN Raise("TmuxError", Wrap(text, o.msg)) ELSE o

\* _safe_subprocess_large_output / _safe_subprocess_stream called directly
AfterHelper(o) == Done(o)

\* capture_window_content, after the helper call
AfterCapture(o) ==
    CASE o.kind = "text" -> Done(o)
      [] o.kind = "result" ->
           IF o.code # 0
           THEN Done(Raise("TmuxError",
                           Wrap("Error capturing window content",
                                Failed("Failed to capture window content", cmd))))
           ELSE Done(Text(o.out))
      [] OTHER -> Done(Rewrap(o, "Error capturing window content"))

\* send_keys_to_window, after the send-keys -l child
SendKeysResult(o) ==
    CASE o.kind = "result" ->
           IF o.code # 0
           THEN Raise("TmuxError",
                      Wrap("Error sending keys", Failed("Failed to send keys", cmd)))
           ELSE Bool(TRUE)
      [] OTHER -> Rewrap(o, "Error sending keys")

AfterSendKeys(o) == Done(SendKeysResult(o))

\* send_command_to_window: the text first, then the Enter key
AfterSendCommand(o) ==
    IF stage = 1
    THEN LET r == SendKeysResult(o) IN
         IF r.kind = "bool" /\ r.flag
         THEN [pc |-> "popen", ret |-> Nothing, stage |-> 2,
               cmd |-> "send-keys C-m", mode |-> "bounded",
               timeout |-> cmd_timeout]
         ELSE Done(r)
    ELSE CASE o.kind = "result" ->
                IF o.code # 0
                THEN Done(Raise("TmuxError",
                                Wrap("Error sending Enter key",
                                     Failed("Failed to send Enter key", cmd))))
                ELSE Done(Bool(TRUE))
           [] OTHER -> Done(Rewrap(o, "Error sending Enter key"))

Continue(o) ==
    CASE op.name = "capture" -> AfterCapture(o)
      [] op.name = "send_keys" -> AfterSendKeys(o)
      [] op.name = "send_command" -> AfterSendCommand(o)
      [] OTHER -> AfterHelper(o)

\* the helper call ends with o, and control is back in the method that made it
Deliver(o) ==
    LET c == Continue(o) IN
    /\ outcome' = o
    /\ pc' = c.pc
    /\ ret' = c.ret
    /\ stage' = c.stage
    /\ cmd' = c.cmd
    /\ mode' = c.mode
    /\ timeout' = c.timeout

childVars ==
    <<elapsed, child, killed, exitcode, exitInTime, returncode, outPipe, errPipe,
      written, errWritten, produced, chunks, errBuf, capStop>>

frameVars == <<pc, stage, mode, cmd, timeout, outcome, ret>>

\* if timeout is None: timeout = self.cmd_timeout
EffectiveTimeout(ov) == IF ov = NoTimeout THEN cmd_timeout ELSE ov

Overrides == {NoTimeout} \cup (1..MaxTimeout)

(***************************************************************************)
(* Entering a method.                                                       *)
(***************************************************************************)
Enter(name, confirm, n, ov, m, c) ==
    /\ pc = "idle"
    /\ op' = [name |-> name, confirm |-> confirm, num_lines |-> n, override |-> ov,
              call |-> 0]
    /\ mode' = m
    /\ cmd' = c
    /\ timeout' = EffectiveTimeout(ov)
    /\ pc' = "popen"
    /\ UNCHANGED <<cfgVars, childVars, outcome, ret, issued, gateVars>>

CallRunBounded(ov) ==
    /\ Enter("bounded", FALSE, 0, ov, "bounded", "cmd")
    /\ stage' = 0

CallRunStreamed(ov) ==
    /\ Enter("streamed", FALSE, 0, ov, "streamed", "cmd")
    /\ stage' = 0

\* num_lines = min(num_lines, self.max_lines_capture)
ClampLines(n) == Min(n, max_lines_capture)

\* if num_lines > 100: the streamed helper, else the buffered one
CapturePath(n) == IF n > StreamThreshold THEN "streamed" ELSE "bounded"

CallCapture(n) ==
    /\ Enter("capture", FALSE, ClampLines(n), NoTimeout,
             CapturePath(ClampLines(n)), "capture-pane")
    /\ stage' = 0

(***************************************************************************)
(* subprocess.Popen(cmd, stdout=PIPE, stderr=PIPE, text=True)               *)
(***************************************************************************)
Popen(ok) ==
    /\ pc = "popen"
    /\ issued' = Append(issued, cmd)
    /\ elapsed' = 0
    /\ killed' = FALSE
    /\ exitcode' = NoCode
    /\ exitInTime' = FALSE
    /\ returncode' = NoCode
    /\ outPipe' = <<>>
    /\ errPipe' = 0
    /\ written' = 0
    /\ errWritten' = 0
    /\ produced' = <<>>
    /\ chunks' = <<>>
    /\ errBuf' = 0
    /\ capStop' = FALSE
    /\ IF ok
       THEN /\ child' = "running"
            /\ pc' = IF mode = "bounded" THEN "communicate" ELSE "readline"
            /\ UNCHANGED <<stage, mode, cmd, timeout, outcome, ret>>
       ELSE /\ child' = "none"
            /\ Deliver(Raise("OSError", [NoMsg EXCEPT !.cmd = cmd]))
    /\ UNCHANGED <<cfgVars, op, gateVars>>

(***************************************************************************)
(* The child process.                                                       *)
(***************************************************************************)
Alive(c) == c \in {"running", "wr_out", "wr_err"}

Active == pc \in {"communicate", "readline", "wait"}

\* a negative line number is a line that does not decode as text; only the
\* stream helper's except clause handles what the decoder raises
ChildWriteOut(bad) ==
    /\ Active
    /\ bad => mode = "streamed"
    /\ child \in {"running", "wr_out"}
    /\ written < MaxLines
    /\ IF Len(outPipe) < PipeCap
       THEN LET line == IF bad THEN 0 - (written + 1) ELSE written + 1 IN
            /\ outPipe' = Append(outPipe, line)
            /\ produced' = Append(produced, line)
            /\ written' = written + 1
            /\ child' = "running"
       ELSE /\ child = "running"
            /\ ~bad
            /\ child' = "wr_out"
            /\ UNCHANGED <<outPipe, produced, written>>
    /\ UNCHANGED <<cfgVars, op, frameVars, elapsed, killed, exitcode, exitInTime,
                   returncode, errPipe, errWritten, chunks, errBuf, capStop,
                   issued, gateVars>>

ChildWriteErr ==
    /\ Active
    /\ child \in {"running", "wr_err"}
    /\ errWritten < MaxErr
    /\ IF errPipe < PipeCap
       THEN /\ errPipe' = errPipe + 1
            /\ errWritten' = errWritten + 1
            /\ child' = "running"
       ELSE /\ child = "running"
            /\ child' = "wr_err"
            /\ UNCHANGED <<errPipe, errWritten>>
    /\ UNCHANGED <<cfgVars, op, frameVars, elapsed, killed, exitcode, exitInTime,
                   returncode, outPipe, written, produced, chunks, errBuf,
                   capStop, issued, gateVars>>

ChildExit(code) ==
    /\ Active
    /\ child = "running"
    /\ child' = "zombie"
    /\ exitcode' = code
    /\ exitInTime' = (elapsed <= timeout)
    /\ UNCHANGED <<cfgVars, op, frameVars, elapsed, killed, returncode, outPipe,
                   errPipe, written, errWritten, produced, chunks, errBuf,
                   capStop, issued, gateVars>>

Tick ==
    /\ Active
    /\ elapsed < MaxTime
    /\ elapsed' = elapsed + 1
    /\ UNCHANGED <<cfgVars, op, frameVars, child, killed, exitcode, exitInTime,
                   returncode, outPipe, errPipe, written, errWritten, produced,
                   chunks, errBuf, capStop, issued, gateVars>>

\* proc.kill(): SIGKILL to a live child, which dies and stays unreaped; on a
\* child that has already exited, the poll() inside send_signal may reap it
AfterKill(c) ==
    IF Alive(c) THEN {"zombie"}
    ELSE IF c = "zombie" THEN {"zombie", "reaped"}
    ELSE {c}

KilledCode(c) == IF Alive(c) THEN 0 - SIGKILL ELSE exitcode

\* proc.communicate() / proc.wait() on a dead child: reaps it
Reaped(c) == "reaped"


(***************************************************************************)
(* _safe_subprocess_large_output: proc.communicate(timeout=timeout)         *)
(***************************************************************************)
\* communicate() reads both pipes while it waits
CommunicateDrain ==
    /\ pc = "communicate"
    /\ outPipe # <<>> \/ errPipe > 0
    /\ chunks' = chunks \o outPipe
    /\ errBuf' = errBuf + errPipe
    /\ outPipe' = <<>>
    /\ errPipe' = 0
    /\ UNCHANGED <<cfgVars, op, frameVars, elapsed, child, killed, exitcode,
                   exitInTime, returncode, written, errWritten, produced, capStop,
                   issued, gateVars>>

ResultChecked(out, err, code) ==
    IF code # 0
    THEN Raise("TmuxError", Failed("Command failed", "cmd"))
    ELSE Result(out, err, code)

\* return stdout, stderr, proc.returncode: any exit status is returned as data
BoundedResult(out, err, code) == Result(out, err, code)

\* the child exited in time
CommunicateReturn ==
    /\ pc = "communicate"
    /\ child = "zombie"
    /\ elapsed <= timeout
    /\ chunks' = chunks \o outPipe
    /\ errBuf' = errBuf + errPipe
    /\ outPipe' = <<>>
    /\ errPipe' = 0
    /\ child' = Reaped(child)
    /\ returncode' = exitcode
    /\ Deliver(BoundedResult(chunks', errBuf', exitcode))
    /\ UNCHANGED <<cfgVars, op, elapsed, killed, exitcode, exitInTime, written,
                   errWritten, produced, capStop, issued, gateVars>>

CleanupSkipped(c) == c

\* the second communicate(), after the kill, waits for the child and reaps it
CleanupAfterKill(c) == Reaped(c)

\* raise TmuxError(f"Command timeout after {timeout}s: {cmd}"): what was read
\* before the timeout is dropped
BoundedTimeoutFailure(t, c, partial) == Raise("TmuxError", TimeoutMsg(t, c))

\* except subprocess.TimeoutExpired: proc.kill(); proc.communicate(); raise TmuxError
CommunicateTimeout ==
    /\ pc = "communicate"
    /\ elapsed > timeout
    /\ killed' = Alive(child)
    /\ exitcode' = KilledCode(child)
    /\ \E c \in AfterKill(child) :
         /\ child' = CleanupAfterKill(c)
         /\ returncode' = IF child' = "reaped" THEN exitcode' ELSE NoCode
    /\ chunks' = chunks \o outPipe
    /\ errBuf' = errBuf + errPipe
    /\ outPipe' = <<>>
    /\ errPipe' = 0
    /\ Deliver(BoundedTimeoutFailure(timeout, cmd, chunks'))
    /\ UNCHANGED <<cfgVars, op, elapsed, exitInTime, written, errWritten, produced,
                   capStop, issued, gateVars>>

(***************************************************************************)
(* _safe_subprocess_stream: for line in iter(proc.stdout.readline, "")      *)
(***************************************************************************)
\* if len(chunks) > self.max_lines_capture: break
CapReached(n) == n > max_lines_capture

\* if time.time() - start_time > timeout
TimedOut(e, t) == e > t

\* the child after proc.kill() has been called n times in a row
RECURSIVE AfterKills(_, _)
AfterKills(c, n) ==
    IF n = 0 THEN {c}
    ELSE UNION { AfterKill(d) : d \in AfterKills(c, n - 1) }

\* the failure paths of the stream helper: `kills` calls of proc.kill(), no
\* wait, and the exception goes to the caller
StreamFailure(o, kills) ==
    /\ killed' = Alive(child)
    /\ exitcode' = KilledCode(child)
    /\ \E c \in AfterKills(child, kills) :
         /\ child' = c
         /\ returncode' = IF c = "reaped" THEN exitcode' ELSE NoCode
    /\ Deliver(o)

\* one readline() that returns a line, and the loop body that follows it
ReadLine ==
    /\ pc = "readline"
    /\ outPipe # <<>>
    /\ outPipe' = Tail(outPipe)
    /\ LET line == Head(outPipe) IN
       IF line < 0
       THEN \* text=True: the decoder raises; except Exception: proc.kill(); raise
            /\ StreamFailure(Raise("UnicodeDecodeError", [NoMsg EXCEPT !.cmd = cmd]), 1)
            /\ UNCHANGED <<chunks, capStop>>
       ELSE /\ chunks' = Append(chunks, line)
            /\ IF TimedOut(elapsed, timeout)
               THEN \* proc.kill(); raise TmuxError; except Exception: proc.kill(); raise
                    /\ StreamFailure(Raise("TmuxError", TimeoutMsg(timeout, cmd)), 2)
                    /\ UNCHANGED capStop
               ELSE IF CapReached(Len(chunks'))
               THEN /\ pc' = "wait"
                    /\ capStop' = TRUE
                    /\ UNCHANGED <<stage, mode, cmd, timeout, outcome, ret,
                                   child, killed, exitcode, returncode>>
               ELSE UNCHANGED <<frameVars, child, killed, exitcode, returncode,
                                capStop>>
    /\ UNCHANGED <<cfgVars, op, elapsed, exitInTime, errPipe, written, errWritten,
                   produced, errBuf, issued, gateVars>>

\* readline() returns "": the pipe is empty and its write end is closed
ReadEOF ==
    /\ pc = "readline"
    /\ outPipe = <<>>
    /\ child = "zombie"
    /\ pc' = "wait"
    /\ UNCHANGED <<cfgVars, op, stage, mode, cmd, timeout, outcome, ret,
                   childVars, issued, gateVars>>

\* proc.wait(); return "".join(chunks)
Wait ==
    /\ pc = "wait"
    /\ child = "zombie"
    /\ child' = Reaped(child)
    /\ returncode' = exitcode
    /\ Deliver(Text(chunks))
    /\ UNCHANGED <<cfgVars, op, elapsed, killed, exitcode, exitInTime, outPipe,
                   errPipe, written, errWritten, produced, chunks, errBuf,
                   capStop, issued, gateVars>>

\* a confirmation whose call has returned and whose reader thread has ended:
\* nothing refers to its thread or its queue any more
Over(k) == reader[k] \in {"done", "gone"} /\ answer[k] # "pending"

\* the method has returned or raised; the caller goes on to its next call
Finish ==
    /\ pc = "done"
    /\ pc' = "idle"
    /\ op' = NoOp
    /\ stage' = 0
    /\ mode' = "none"
    /\ cmd' = ""
    /\ timeout' = 0
    /\ elapsed' = 0
    /\ child' = "none"
    /\ killed' = FALSE
    /\ exitcode' = NoCode
    /\ exitInTime' = FALSE
    /\ returncode' = NoCode
    /\ outPipe' = <<>>
    /\ errPipe' = 0
    /\ written' = 0
    /\ errWritten' = 0
    /\ produced' = <<>>
    /\ chunks' = <<>>
    /\ errBuf' = 0
    /\ capStop' = FALSE
    /\ outcome' = Nothing
    /\ ret' = Nothing
    /\ issued' = <<>>
    /\ reader' = [k \in Calls |-> IF Over(k) THEN "gone" ELSE reader[k]]
    /\ typed' = [k \in Calls |-> IF Over(k) THEN <<>> ELSE typed[k]]
    /\ handoff' = [k \in Calls |-> IF Over(k) THEN <<>> ELSE handoff[k]]
    /\ answer' = [k \in Calls |-> IF Over(k) THEN "forgotten" ELSE answer[k]]
    /\ UNCHANGED <<cfgVars, ncalls>>

(***************************************************************************)
(* _safe_confirm: a reader thread per call, a result_queue per call, and    *)
(* result_queue.get(timeout=timeout) in the caller.                         *)
(***************************************************************************)
\* if self.safety_mode and confirm
NeedsConfirm(confirm) == safety_mode /\ confirm

SharedHandoff(k) == 1

\* the result_queue the reader thread of call k puts into: the one its own
\* call created (a local of _safe_confirm, closed over by get_input)
HandoffOf(k) == k

DeniedInverted(b) == b

\* if not self._safe_confirm(prompt): print("Operation cancelled"); return False
Denied(b) == ~b

\* return response == "yes"
Affirmative(response) == response = YES

\* thread.start(): the reader of a new call begins to wait in input()
StartConfirm(name, confirm) ==
    /\ pc = "idle"
    /\ ncalls < MaxCalls
    /\ ncalls' = ncalls + 1
    /\ reader' = [reader EXCEPT ![ncalls + 1] = "input"]
    /\ op' = [name |-> name, confirm |-> confirm, num_lines |-> 0,
              override |-> NoTimeout, call |-> ncalls + 1]
    /\ pc' = "confirm_get"
    /\ stage' = 0
    /\ UNCHANGED <<cfgVars, mode, cmd, timeout, childVars, outcome, ret, issued,
                   typed, handoff, answer>>

CallConfirm == StartConfirm("confirm", FALSE)

\* send_keys_to_window / send_command_to_window: the gate first, if required
CallSend(name, confirm) ==
    IF NeedsConfirm(confirm)
    THEN StartConfirm(name, confirm)
    ELSE /\ Enter(name, confirm, 0, NoTimeout, "bounded", "send-keys -l")
         /\ stage' = 1

CallSendKeys(confirm) == CallSend("send_keys", confirm)

CallSendCommand(confirm) == CallSend("send_command", confirm)

\* get_input: input(prompt) returns a line or raises EOFError; the stripped,
\* lowercased response (or "") is put into the queue
ReaderInput(k, line) ==
    /\ reader[k] = "input"
    /\ reader' = [reader EXCEPT ![k] = "done"]
    /\ typed' = [typed EXCEPT ![k] = line]
    /\ handoff' = [handoff EXCEPT ![HandoffOf(k)] = Append(@, Response(line))]
    /\ UNCHANGED <<cfgVars, pc, op, stage, procVars, outcome, ret, issued,
                   ncalls, answer>>

\* _safe_confirm returns b to the method that called it
GateDeliver(b) ==
    IF op.name = "confirm"
    THEN /\ pc' = "done"
         /\ ret' = Bool(b)
         /\ UNCHANGED <<stage, mode, cmd, timeout>>
    ELSE IF Denied(b)
    THEN /\ pc' = "done"
         /\ ret' = Bool(FALSE)
         /\ UNCHANGED <<stage, mode, cmd, timeout>>
    ELSE /\ pc' = "popen"
         /\ stage' = 1
         /\ mode' = "bounded"
         /\ cmd' = "send-keys -l"
         /\ timeout' = cmd_timeout
         /\ UNCHANGED ret

\* result_queue.get(timeout=timeout) returns the response
ConfirmGet ==
    /\ pc = "confirm_get"
    /\ handoff[HandoffOf(op.call)] # <<>>
    /\ LET response == Head(handoff[HandoffOf(op.call)]) IN
       /\ answer' = [answer EXCEPT
                       ![op.call] = IF Affirmative(response) THEN "true" ELSE "false"]
       /\ GateDeliver(Affirmative(response))
    /\ handoff' = [handoff EXCEPT ![HandoffOf(op.call)] = Tail(@)]
    /\ UNCHANGED <<cfgVars, op, childVars, outcome, issued, ncalls, reader, typed>>

\* except queue.Empty: return False
ConfirmTimeout ==
    /\ pc = "confirm_get"
    /\ handoff[HandoffOf(op.call)] = <<>>
    /\ answer' = [answer EXCEPT ![op.call] = "false"]
    /\ GateDeliver(FALSE)
    /\ UNCHANGED <<cfgVars, op, childVars, outcome, issued, ncalls, reader, typed,
                   handoff>>

(***************************************************************************)
(* Specifications.                                                          *)
(***************************************************************************)
ChildOutput ==
    \/ \E bad \in BOOLEAN : ChildWriteOut(bad)
    \/ ChildWriteErr

ChildRuns ==
    \/ \E code \in {0, 1} : ChildExit(code)
    \/ Tick

Bounded ==
    \/ CommunicateDrain
    \/ CommunicateReturn
    \/ CommunicateTimeout

Streamed ==
    \/ ReadLine
    \/ ReadEOF
    \/ Wait

Gate ==
    \/ \E k \in Calls, line \in Inputs : ReaderInput(k, line)
    \/ ConfirmGet
    \/ ConfirmTimeout

Next ==
    \/ \E ov \in Overrides : CallRunBounded(ov)
    \/ \E ov \in Overrides : CallRunStreamed(ov)
    \/ \E n \in NumLinesInputs : CallCapture(n)
    \/ CallConfirm
    \/ \E confirm \in BOOLEAN : CallSendKeys(confirm)
    \/ \E confirm \in BOOLEAN : CallSendCommand(confirm)
    \/ \E ok \in BOOLEAN : Popen(ok)
    \/ ChildOutput
    \/ ChildRuns
    \/ Bounded
    \/ Streamed
    \/ Gate
    \/ Finish

\* the whole orchestrator; the properties below are checked under the
\* specifications that follow, each of which fixes the methods the caller uses
Spec == Init /\ [][Next]_vars

\* the process execution layer and capture_window_content, with no
\* confirmation pending
NextProcess ==
    \/ \E ov \in Overrides : CallRunBounded(ov)
    \/ \E ov \in Overrides : CallRunStreamed(ov)
    \/ \E n \in NumLinesInputs : CallCapture(n)
    \/ \E ok \in BOOLEAN : Popen(ok)
    \/ ChildOutput
    \/ ChildRuns
    \/ Bounded
    \/ Streamed
    \/ Finish

SpecProcess == Init /\ [][NextProcess]_vars

\* the confirmation gate alone
NextConfirm ==
    \/ CallConfirm
    \/ Gate
    \/ Finish

SpecConfirm == Init /\ [][NextConfirm]_vars

\* send_keys_to_window and send_command_to_window behind the gate; the
\* send-keys child writes nothing these methods read
NextSend ==
    \/ \E confirm \in BOOLEAN : CallSendKeys(confirm)
    \/ \E confirm \in BOOLEAN : CallSendCommand(confirm)
    \/ \E ok \in BOOLEAN : Popen(ok)
    \/ ChildRuns
    \/ CommunicateReturn
    \/ CommunicateTimeout
    \/ Gate
    \/ Finish

\* the orchestrator as its constructor leaves it: max_lines_capture = 1000
InitConstructed == Init /\ max_lines_capture = DefaultMaxLinesCapture

SpecSend == InitConstructed /\ [][NextSend]_vars


\* _safe_subprocess_stream alone, with a caller thread that is scheduled and a
\* clock that advances; the child may stop at any point
NextStream ==
    \/ \E ov \in Overrides : CallRunStreamed(ov)
    \/ \E ok \in BOOLEAN : Popen(ok)
    \/ ChildOutput
    \/ ChildRuns
    \/ Streamed
    \/ Finish

FairStream ==
    /\ Init
    /\ [][NextStream]_vars
    /\ WF_vars(\E ok \in BOOLEAN : Popen(ok))
    /\ WF_vars(Streamed)
    /\ WF_vars(Tick)

(***************************************************************************)
(* Properties.                                                              *)
(***************************************************************************)
HelperDone(name) == pc = "done" /\ op.name = name

TimeoutFailureOf(ov) ==
    Raise("TmuxError",
          [text |-> "Command timeout after", inner |-> "",
           timeout |-> IF ov = NoTimeout THEN cmd_timeout ELSE ov,
           cmd |-> "cmd"])

StalledMidStream ==
    /\ pc = "readline"
    /\ chunks # <<>>
    /\ outPipe = <<>>
    /\ Alive(child)
    /\ elapsed > timeout

StreamTimeoutFailure ==
    /\ HelperDone("streamed")
    /\ outcome = Raise("TmuxError", TimeoutMsg(timeout, cmd))

\* C2: whenever the child of _safe_subprocess_stream has gone silent in
\* mid-stream (no line, stdout not closed) and the timeout has passed, the call
\* eventually ends in the timeout failure.
C2_StallEndsInTimeout == [](StalledMidStream => <>StreamTimeoutFailure)

\* C3: the text _safe_subprocess_stream returns has at most max_lines_capture
\* lines, and when the child wrote more than that it is exactly the first
\* max_lines_capture lines, in the order written.
C3_AtMostCapLines ==
    (HelperDone("streamed") /\ ret.kind = "text") =>
        /\ Len(ret.out) <= max_lines_capture
        /\ Len(produced) > max_lines_capture =>
             ret.out = SubSeq(produced, 1, max_lines_capture)

ChildBlockedOnFullPipe ==
    \/ child = "wr_out" /\ Len(outPipe) >= PipeCap
    \/ child = "wr_err" /\ errPipe >= PipeCap

\* C4: while _safe_subprocess_stream waits for the child after the line-cap
\* break, the child is never blocked writing to a full stdout or stderr pipe
\* (the wait cannot deadlock).
C4_NoDeadlockAfterCap == (pc = "wait" /\ capStop) => ~ChildBlockedOnFullPipe

\* C5: when _safe_subprocess_stream fails (timeout in the read loop, or an
\* exception while reading), the child has been killed and reaped by the time
\* the failure reaches the caller.
C5_StreamFailureReaps ==
    (HelperDone("streamed") /\ outcome.kind = "raise" /\ child # "none") =>
        child = "reaped"

C10_NonZeroExitRaises ==
    (HelperDone("capture") /\ child # "none" /\ \A i \in DOMAIN produced : produced[i] > 0) =>
        /\ exitcode = 1 => (ret.kind = "raise" /\ ret.exc = "TmuxError")
        /\ ret.kind = "text" => exitcode = 0


YesLines == { <<"y", "e", "s">>, <<" ", "Y", "E", "S", " ">> }

Returned(k) == answer[k] \in {"true", "false"}

\* the caller took the reader's response out of the handoff
TakenInTime(k) == reader[k] = "done" /\ handoff[k] = <<>>

\* C6: _safe_confirm returns true exactly when its reader handed a response
\* over before the timed wait expired and the typed line, trimmed and
\* lowercased, is "yes"; "y", "Yes please", "", "no", end of input and no
\* input in time all give false; and the caller's wait never depends on the
\* reader having finished.
C6_TrueIffTimelyYes ==
    /\ \A k \in Calls :
         Returned(k) =>
           (answer[k] = "true" <=> (TakenInTime(k) /\ typed[k] \in YesLines))
    /\ HelperDone("confirm") =>
         /\ Returned(op.call)
         /\ ret = Bool(answer[op.call] = "true")
    /\ pc = "confirm_get" => ENABLED (ConfirmGet \/ ConfirmTimeout)

C6_Witness ==
    /\ HelperDone("confirm")
    /\ ret = Bool(TRUE)
    /\ typed[op.call] = <<" ", "Y", "E", "S", " ">>
    /\ \E j \in Calls : answer[j] = "false" /\ reader[j] = "input"

\* C9: over any sequence of _safe_confirm calls, a call returns true only if
\* its own reader read a "yes" line, and every handoff holds only what the
\* reader of its own call read: a line consumed by the abandoned reader of an
\* earlier call never reaches a later call.
C9_OwnReaderOnly ==
    \A k \in Calls :
        /\ answer[k] = "true" => (reader[k] = "done" /\ typed[k] \in YesLines)
        /\ reader[k] \in {"unstarted", "input"} => handoff[k] = <<>>
        /\ handoff[k] # <<>> =>
             /\ Len(handoff[k]) = 1
             /\ answer[k] # "true"
             /\ handoff[k][1] = YES <=> typed[k] \in YesLines

C9_Witness ==
    /\ HelperDone("confirm")
    /\ op.call = 2
    /\ answer[1] = "false"
    /\ typed[1] = <<"y", "e", "s">>
    /\ handoff[1] = <<YES>>
    /\ reader[2] = "input"
    /\ ret = Bool(FALSE)

SendOp == op.name \in {"send_keys", "send_command"}

GatedSend ==
    (SendOp /\ safety_mode /\ op.confirm) =>
        /\ op.call \in Calls
        /\ issued # <<>> => answer[op.call] = "true"
        /\ pc \in {"popen", "communicate"} => answer[op.call] = "true"
        /\ (pc = "done" /\ answer[op.call] = "false") =>
             (ret = Bool(FALSE) /\ issued = <<>> /\ child = "none")

\* C7: with the safety flag on and confirm = true, send_keys_to_window and
\* send_command_to_window hand no send-keys command (text or C-m) to Popen
\* unless _safe_confirm returned true first; after a denied or timed-out
\* confirmation they return False with no command run; and the safety flag
\* never changes after construction.
C7_GateBeforeSendKeys == []GatedSend /\ [][safety_mode' = safety_mode]_vars

C7_Witness ==
    /\ op.name = "send_command"
    /\ safety_mode
    /\ op.confirm
    /\ pc = "done"
    /\ reader[op.call] = "input"
    /\ ret = Bool(FALSE)
    /\ issued = <<>>

====
